---- MODULE Spec2Model ----
(***************************************************************************)
(* Token lifecycle service (src/server/auth/jwt.ts) and the per-request    *)
(* session gate (src/server/auth/util.ts, src/server/package.ts).          *)
(*                                                                         *)
(* Time is counted in milliseconds (Date.now()); jsonwebtoken works in     *)
(* whole seconds (iat, exp and the verification clock are                  *)
(* floor(Date.now() / 1000)).  The constants are scaled down.              *)
(*                                                                         *)
(* An async function is cut at its awaits on the credential store: one     *)
(* action is one store operation together with the synchronous             *)
(* continuation that runs when it resolves (or rejects).  One synchronous  *)
(* block reads one value of Date.now().                                    *)
(*                                                                         *)
(* HS256 signing is deterministic: two tokens signed for one user in one   *)
(* millisecond are the same string, and RefreshToken.create stores a       *)
(* record for each (the token field carries no unique index).              *)
(*                                                                         *)
(* A client presents a token only in a later millisecond than the one it   *)
(* was signed in, and only a token a response has carried to a client.     *)
(***************************************************************************)
EXTENDS Integers, Sequences, FiniteSets, TLC

\* ---------------------------------------------------------------- bounds
\* the last millisecond, the records the store holds at once, and the
\* milliseconds a request may stay in flight
MaxTime == 6
MaxRecords == 4
MaxLatency == 1
MaxMessages == 1
MaxBeats == 1
MaxSends == 2
MaxChannels == 1
MaxStored == 1

\* ------------------------------------- program constants (scaled down)
MsPerSec == 2
AccessTokenExpiry == 2
RefreshTokenExpiry == 4

\* userIds, and the requests that may be in flight together
Users == {"u1", "u2"}
OneUser == {"u1"}
Procs == {1, 2}
OneProc == {1}

VARIABLES now, store, issued, proc, rotated, last,
          conn, channelSubscriptions, allChannelsSubscriptions,
          messages, newChannels, send, calls, inbox

registry == <<conn, channelSubscriptions, allChannelsSubscriptions>>
messaging == <<messages, newChannels, send, calls, inbox>>
vars == <<now, store, issued, proc, rotated, last,
          conn, channelSubscriptions, allChannelsSubscriptions,
          messages, newChannels, send, calls, inbox>>

\* ----------------------------------------------------------------- tokens
Null == "null"

\* an absent cookie, and a string that is no token of this server
NoToken == [kind |-> "none", userId |-> "-", expires |-> 0, iat |-> 0, exp |-> 0]
Garbage == [kind |-> "garbage", userId |-> "-", expires |-> 0, iat |-> 0, exp |-> 0]

Seconds(t) == t \div MsPerSec

\* jwt.sign(payload, secret, {expiresIn}) with payload {userId, expires}
JwtSign(kind, u, t, expiresIn) ==
    [kind |-> kind, userId |-> u, expires |-> t + AccessTokenExpiry,
     iat |-> Seconds(t), exp |-> Seconds(t) + expiresIn]

SignAccess(u, t) == JwtSign("access", u, t, AccessTokenExpiry \div MsPerSec)
SignRefresh(u, t) == JwtSign("refresh", u, t, RefreshTokenExpiry \div MsPerSec)

\* jwt.verify(token, secret): signature, then clockTimestamp >= exp => expired
JwtVerify(tok, kind, t) ==
    IF tok.kind = kind /\ Seconds(t) < tok.exp THEN tok.userId ELSE Null

\* an access check that also looks for a revoked record minted with the token
VerifyAccessTokenStateful(tok, t) ==
    IF \E x \in store : x.isRevoked /\ x.userId = tok.userId
                        /\ x.token.expires = tok.expires
    THEN Null ELSE JwtVerify(tok, "access", t)

\* verifyAccessToken: jwt.verify inside try/catch, null on any error
VerifyAccessToken(tok, t) == JwtVerify(tok, "access", t)

\* ------------------------------------------------------- credential store
\* A record's id stands for its _id: records of one token are found in the
\* order in which they were inserted.
Matches(s, u, tok) == {r \in s : r.userId = u /\ r.token = tok}
Found(s, tok) == {r \in s : r.token = tok}
First(S) == CHOOSE r \in S : \A q \in S : r.id <= q.id

StoreRefreshToken(s, u, tok, expiresAt) ==
    s \cup {[id |-> Cardinality(Found(s, tok)) + 1, userId |-> u, token |-> tok,
             expiresAt |-> expiresAt, isRevoked |-> FALSE]}

\* a revocation whose filter matches no record
RevokeRefreshTokenNoMatch(s, u, tok) == s

\* a revocation that marks the first record not yet revoked
RevokeRefreshTokenNextUnrevoked(s, u, tok) ==
    LET live == {r \in Matches(s, u, tok) : ~r.isRevoked}
    IN IF live = {} THEN s
       ELSE (s \ {First(live)}) \cup {[First(live) EXCEPT !.isRevoked = TRUE]}

\* updateOne({userId, token}, {isRevoked: true}): the first matching record
RevokeRefreshToken(s, u, tok) ==
    IF Matches(s, u, tok) = {} THEN s
    ELSE (s \ {First(Matches(s, u, tok))})
            \cup {[First(Matches(s, u, tok)) EXCEPT !.isRevoked = TRUE]}

IsTokenRevoked(s, tok) ==
    IF Found(s, tok) = {} THEN TRUE ELSE First(Found(s, tok)).isRevoked

\* a sweep that also deletes the records expiring at this very instant
CleanupExpiredTokensInclusive(s, t) == {r \in s : r.expiresAt > t}

\* deleteMany({expiresAt: {$lt: new Date()}})
CleanupExpiredTokens(s, t) == {r \in s : ~(r.expiresAt < t)}

\* cleanupExpiredTokens(): the sweep inside try/catch; a rejected deleteMany
\* deletes nothing, is logged, and the promise still resolves
CleanupJob(s, t, ok) ==
    [store |-> IF ok THEN CleanupExpiredTokens(s, t) ELSE s, rejected |-> FALSE]

\* a refresh check that trusts the signature alone
VerifyRefreshTokenSignatureOnly(s, tok, t) == JwtVerify(tok, "refresh", t)

\* verifyRefreshToken: isTokenRevoked first, then jwt.verify; null on error

VerifyRefreshToken(s, tok, t) ==
    IF IsTokenRevoked(s, tok) THEN Null ELSE JwtVerify(tok, "refresh", t)

\* ---------------------------------------------------------------- clients
\* payload.expires = Date.now() + accessTokenExpiry names the signing time
MintTime(tok) == tok.expires - AccessTokenExpiry
AccessOf(r) == SignAccess(r.userId, MintTime(r))

\* the cookies a request can carry
Presentable == {r \in issued : MintTime(r) < now}
AccessInputs == {NoToken, Garbage} \cup {AccessOf(r) : r \in Presentable}
RefreshInputs == {NoToken, Garbage} \cup Presentable

Idle ==
    [pc |-> "idle", refresh |-> NoToken, started |-> 0, user |-> Null,
     newAccess |-> NoToken, newRefresh |-> NoToken, expiresAt |-> 0]

\* The response being written: what the request carried (the subject its
\* access cookie verified to, its refresh cookie) and what Route.auth answers.
NoResponse ==
    [accessSubject |-> Null, refresh |-> NoToken, status |-> 0, user |-> Null,
     setAccess |-> NoToken, setRefresh |-> NoToken, cleared |-> FALSE,
     storeFailed |-> FALSE]

InFlight(p) == proc[p].pc \in {"find", "create", "revoke"}

\* -------------------------------------------------------- channel registry
\* A Map is a function on its keys.
EmptyMap == [k \in {} |-> {}]
MapSet(m, k, v) == [x \in DOMAIN m \cup {k} |-> IF x = k THEN v ELSE m[x]]
MapDelete(m, k) == [x \in DOMAIN m \ {k} |-> m[x]]

\* the requests that may ask for an event stream
Conns == {1, 2}
Channels == {"x", "y"}
\* channel documents: ownerUserIds (u2 has an account and no channel)
OwnerUserIds == [ch \in Channels |-> {"u1"}]
AllEndpoint == "all"

\* A request's subscription closure: the SSEConnection, the channels its
\* cleanup walks, the signals already emitted, the heartbeat interval.
NoConn ==
    [phase |-> "new", userId |-> Null, endpoint |-> Null, channels |-> {},
     signals |-> {}, heartbeat |-> FALSE, writableEnded |-> FALSE,
     cleaned |-> FALSE, delivered |-> 0, writeThrows |-> FALSE, heartbeats |-> 0]

\* the requests that may post a message
SendReqs == {1, 2}
\* a send request between its awaits
IdleSend ==
    [pc |-> "idle", route |-> Null, user |-> Null, channelId |-> Null,
     targetUserId |-> Null]

\* no message stored, no channel created, nothing broadcast or received
InitMessaging ==
    /\ messages = <<>>
    /\ newChannels = {}
    /\ send = [s \in SendReqs |-> IdleSend]
    /\ calls = <<>>
    /\ inbox = [c \in Conns |-> <<>>]

Init ==
    /\ now = 0
    /\ store = {}
    /\ issued = {}
    /\ proc = [p \in Procs |-> Idle]
    /\ rotated = {}
    /\ last = NoResponse
    /\ conn = [c \in Conns |-> NoConn]
    /\ channelSubscriptions = EmptyMap
    /\ allChannelsSubscriptions = EmptyMap
    /\ InitMessaging

\* Date.now() advances; a request in flight is answered within MaxLatency
Tick ==
    /\ last = NoResponse
    /\ now < MaxTime
    /\ \A p \in Procs : InFlight(p) => now - proc[p].started < MaxLatency
    /\ now' = now + 1
    /\ UNCHANGED <<store, issued, proc, rotated, last>>
    /\ UNCHANGED registry
    /\ UNCHANGED messaging

\* the response leaves the server
SendResponse ==
    /\ last # NoResponse
    /\ last' = NoResponse
    /\ UNCHANGED <<now, store, issued, proc, rotated>>
    /\ UNCHANGED registry
    /\ UNCHANGED messaging

\* generateTokens(u) as called by the login and signup routes
GenerateTokens(u) ==
    /\ last = NoResponse
    /\ Cardinality(store) < MaxRecords
    /\ store' = StoreRefreshToken(store, u, SignRefresh(u, now), now + RefreshTokenExpiry)
    /\ issued' = issued \cup {SignRefresh(u, now)}
    /\ UNCHANGED <<now, proc, rotated, last>>
    /\ UNCHANGED registry
    /\ UNCHANGED messaging

\* Route.auth answers a request that validateJWTRequest did not authenticate
Unauthorized(subject, r, failed) ==
    [NoResponse EXCEPT !.accessSubject = subject, !.refresh = r, !.status = 401,
                       !.storeFailed = failed]

\* a rotation that renews the access cookie only
AuthenticatedAccessOnly(subject, r, payload, newA, newR) ==
    [NoResponse EXCEPT !.accessSubject = subject, !.refresh = r, !.status = 200,
                       !.user = payload, !.setAccess = newA]

\* Route.auth calls next() with req.user set
Authenticated(subject, r, payload, newA, newR) ==
    [NoResponse EXCEPT !.accessSubject = subject, !.refresh = r, !.status = 200,
                       !.user = payload, !.setAccess = newA, !.setRefresh = newR]

\* a gate that also rejects a valid access token whose subject is not the
\* refresh token's, as validateJWT does
StartRequestCompareSubjects(p, a, r) ==
    /\ last = NoResponse
    /\ proc[p].pc = "idle"
    /\ LET payload == IF a # NoToken THEN VerifyAccessToken(a, now) ELSE Null
       IN IF r = NoToken \/ (payload # Null /\ r.userId # payload)
          THEN /\ last' = Unauthorized(payload, r, FALSE)
               /\ proc' = proc
          ELSE IF payload # Null
          THEN /\ last' = Authenticated(payload, r, payload, NoToken, NoToken)
               /\ proc' = proc
          ELSE /\ last' = last
               /\ proc' = [proc EXCEPT ![p] =
                    [Idle EXCEPT !.pc = "find", !.refresh = r, !.started = now]]
    /\ UNCHANGED <<now, store, issued, rotated>>
    /\ UNCHANGED registry
    /\ UNCHANGED messaging

\* a gate that renews the access cookie on every authenticated request
StartRequestSliding(p, a, r) ==
    /\ last = NoResponse
    /\ proc[p].pc = "idle"
    /\ LET payload == IF a # NoToken THEN VerifyAccessToken(a, now) ELSE Null
       IN IF r = NoToken
          THEN /\ last' = Unauthorized(payload, r, FALSE)
               /\ proc' = proc
          ELSE IF payload # Null
          THEN /\ last' = Authenticated(payload, r, payload, SignAccess(payload, now), NoToken)
               /\ proc' = proc
          ELSE /\ last' = last
               /\ proc' = [proc EXCEPT ![p] =
                    [Idle EXCEPT !.pc = "find", !.refresh = r, !.started = now]]
    /\ UNCHANGED <<now, store, issued, rotated>>
    /\ UNCHANGED registry
    /\ UNCHANGED messaging

\* Route.auth -> validateJWTRequest -> verifyAndRefreshTokens, up to the
\* first await of rotateTokens
StartRequest(p, a, r) ==
    /\ last = NoResponse
    /\ proc[p].pc = "idle"
    /\ LET payload == IF a # NoToken THEN VerifyAccessToken(a, now) ELSE Null
       IN IF r = NoToken
          THEN /\ last' = Unauthorized(payload, r, FALSE)
               /\ proc' = proc
          ELSE IF payload # Null
          THEN /\ last' = Authenticated(payload, r, payload, NoToken, NoToken)
               /\ proc' = proc
          ELSE /\ last' = last
               /\ proc' = [proc EXCEPT ![p] =
                    [Idle EXCEPT !.pc = "find", !.refresh = r, !.started = now]]
    /\ UNCHANGED <<now, store, issued, rotated>>
    /\ UNCHANGED registry
    /\ UNCHANGED messaging

\* a rotation that revokes the old record before it has verified the token
RotFindRevokeFirst(p, ok) ==
    /\ last = NoResponse
    /\ proc[p].pc = "find"
    /\ LET q == proc[p]
           u == VerifyRefreshToken(store, q.refresh, now)
       IN /\ store' = RevokeRefreshToken(store, q.refresh.userId, q.refresh)
          /\ IF ~ok \/ u = Null
             THEN /\ proc' = [proc EXCEPT ![p] = Idle]
                  /\ last' = Unauthorized(Null, q.refresh, ~ok)
             ELSE /\ proc' = [proc EXCEPT ![p] =
                       [q EXCEPT !.pc = "create", !.user = u,
                                 !.newAccess = SignAccess(u, now),
                                 !.newRefresh = SignRefresh(u, now),
                                 !.expiresAt = now + RefreshTokenExpiry]]
                  /\ last' = last
    /\ UNCHANGED <<now, issued, rotated>>
    /\ UNCHANGED registry
    /\ UNCHANGED messaging

\* isTokenRevoked's findOne resolves (or rejects); verifyRefreshToken,
\* refreshAccessToken and the synchronous part of generateTokens run
RotFind(p, ok) ==
    /\ last = NoResponse
    /\ proc[p].pc = "find"
    /\ LET q == proc[p]
           u == VerifyRefreshToken(store, q.refresh, now)
       IN IF ~ok \/ u = Null
          THEN /\ proc' = [proc EXCEPT ![p] = Idle]
               /\ last' = Unauthorized(Null, q.refresh, ~ok)
          ELSE /\ proc' = [proc EXCEPT ![p] =
                    [q EXCEPT !.pc = "create", !.user = u,
                              !.newAccess = SignAccess(u, now),
                              !.newRefresh = SignRefresh(u, now),
                              !.expiresAt = now + RefreshTokenExpiry]]
               /\ last' = last
    /\ UNCHANGED <<now, store, issued, rotated>>
    /\ UNCHANGED registry
    /\ UNCHANGED messaging

\* storeRefreshToken's create resolves (or rejects)
RotCreate(p, ok) ==
    /\ last = NoResponse
    /\ proc[p].pc = "create"
    /\ ok => Cardinality(store) < MaxRecords
    /\ LET q == proc[p]
       IN IF ok
          THEN /\ store' = StoreRefreshToken(store, q.user, q.newRefresh, q.expiresAt)
               /\ proc' = [proc EXCEPT ![p].pc = "revoke"]
               /\ last' = last
          ELSE /\ store' = store
               /\ proc' = [proc EXCEPT ![p] = Idle]
               /\ last' = Unauthorized(Null, q.refresh, TRUE)
    /\ UNCHANGED <<now, issued, rotated>>
    /\ UNCHANGED registry
    /\ UNCHANGED messaging

\* revokeRefreshToken's updateOne resolves (or rejects); rotateTokens returns
\* and verifyAndRefreshTokens sets the cookies
RotRevoke(p, ok) ==
    /\ last = NoResponse
    /\ proc[p].pc = "revoke"
    /\ LET q == proc[p]
       IN IF ok
          THEN /\ store' = RevokeRefreshToken(store, q.user, q.refresh)
               /\ last' = Authenticated(Null, q.refresh, q.user, q.newAccess, q.newRefresh)
               /\ issued' = issued \cup {q.newRefresh}
               /\ rotated' = rotated \cup {q.refresh}
          ELSE /\ store' = store
               /\ last' = Unauthorized(Null, q.refresh, TRUE)
               /\ UNCHANGED <<issued, rotated>>
    /\ proc' = [proc EXCEPT ![p] = Idle]
    /\ now' = now
    /\ UNCHANGED registry
    /\ UNCHANGED messaging

\* the hourly job; a browser drops a cookie at its maxAge
Cleanup ==
    /\ last = NoResponse
    /\ store' = CleanupJob(store, now, TRUE).store
    /\ store' # store
    /\ issued' = {r \in issued : Found(store', r) # {}}
    /\ rotated' = {r \in rotated : Found(store', r) # {}}
    /\ UNCHANGED <<now, proc, last>>
    /\ UNCHANGED registry
    /\ UNCHANGED messaging

\* two concurrent requests of one user
Next ==
    \/ Tick
    \/ SendResponse
    \/ \E u \in OneUser : GenerateTokens(u)
    \/ \E p \in Procs : \E a \in AccessInputs : \E r \in RefreshInputs : StartRequest(p, a, r)
    \/ \E p \in Procs : \E ok \in BOOLEAN : RotFind(p, ok)
    \/ \E p \in Procs : \E ok \in BOOLEAN : RotCreate(p, ok)
    \/ \E p \in Procs : \E ok \in BOOLEAN : RotRevoke(p, ok)
    \/ Cleanup

Spec == Init /\ [][Next]_vars

\* one request at a time, two users
NextGate ==
    \/ Tick
    \/ SendResponse
    \/ \E u \in Users : GenerateTokens(u)
    \/ \E p \in OneProc : \E a \in AccessInputs : \E r \in RefreshInputs : StartRequest(p, a, r)
    \/ \E p \in OneProc : \E ok \in BOOLEAN : RotFind(p, ok)
    \/ \E p \in OneProc : \E ok \in BOOLEAN : RotCreate(p, ok)
    \/ \E p \in OneProc : \E ok \in BOOLEAN : RotRevoke(p, ok)
    \/ Cleanup

SpecGate == Init /\ [][NextGate]_vars

\* ------------------------------------------------- channel registry: steps
\* the channels a user's documents list
UserChannels(u) == {ch \in Channels : u \in OwnerUserIds[ch]}

\* sendSSEMessage: false when the response has ended or res.write throws
\* (caught and logged), else one write
SendSSEMessage(c) == ~conn[c].writableEnded /\ ~conn[c].writeThrows

\* channelSubscriptions.get(id).add(subscription), creating missing sets
AddToSets(subs, chs, c) ==
    [k \in DOMAIN subs \cup chs |->
        (IF k \in DOMAIN subs THEN subs[k] ELSE {}) \cup (IF k \in chs THEN {c} ELSE {})]

\* a cleanup that leaves an emptied set in the map
CleanupSetsKeepEmpty(subs, chs, c) ==
    [k \in DOMAIN subs |-> IF k \in chs THEN subs[k] \ {c} ELSE subs[k]]

\* a cleanup that only logs
CleanupSetsNothing(subs, chs, c) == subs

\* the cleanup closures' walk: delete the subscription from each set that
\* still exists, and delete a set that is left empty
CleanupSets(subs, chs, c) ==
    [k \in {x \in DOMAIN subs : x \notin chs \/ subs[x] \ {c} # {}} |->
        IF k \in chs THEN subs[k] \ {c} ELSE subs[k]]

\* cleanup of an all-channels subscription: the slot is deleted by user id
CleanupSlot(all, c) ==
    IF conn[c].endpoint = AllEndpoint THEN MapDelete(all, conn[c].userId) ELSE all

RunCleanup(c) ==
    /\ channelSubscriptions' = CleanupSets(channelSubscriptions, conn[c].channels, c)
    /\ allChannelsSubscriptions' = CleanupSlot(allChannelsSubscriptions, c)

Opened(u, endpoint, chs) ==
    [NoConn EXCEPT !.phase = "open", !.userId = u, !.endpoint = endpoint,
                   !.channels = chs, !.heartbeat = TRUE]

\* GET /api/message/channel/subscribe, the handler: req.user is the user
\* Route.auth attached, channelId the validated query
OnSubscribeChannel(c, user, ch) ==
    /\ conn[c].phase = "new"
    /\ IF ch \in UserChannels(user)
       THEN /\ conn' = [conn EXCEPT ![c] = Opened(user, ch, {ch})]
            /\ channelSubscriptions' = AddToSets(channelSubscriptions, {ch}, c)
       ELSE UNCHANGED <<conn, channelSubscriptions>>
    /\ UNCHANGED <<now, store, issued, proc, rotated, allChannelsSubscriptions>>
    /\ UNCHANGED messaging

\* GET /api/message/subscribe, the handler
OnSubscribeAll(c, user) ==
    /\ conn[c].phase = "new"
    /\ IF UserChannels(user) # {}
       THEN /\ conn' = [conn EXCEPT ![c] = Opened(user, AllEndpoint, UserChannels(user))]
            /\ allChannelsSubscriptions' = MapSet(allChannelsSubscriptions, user, c)
            /\ channelSubscriptions' =
                   AddToSets(channelSubscriptions, UserChannels(user), c)
       ELSE UNCHANGED registry
    /\ UNCHANGED <<now, store, issued, proc, rotated>>
    /\ UNCHANGED messaging

\* a handler that skips the membership lookup
RouteSubscribeChannelOpen(c, ch, fullUser) ==
    /\ last.status = 200
    /\ last' = NoResponse
    /\ conn[c].phase = "new"
    /\ conn' = [conn EXCEPT ![c] = Opened(last.user, ch, {ch})]
    /\ channelSubscriptions' = AddToSets(channelSubscriptions, {ch}, c)
    /\ UNCHANGED <<now, store, issued, proc, rotated, allChannelsSubscriptions>>
    /\ UNCHANGED messaging

\* the routes as registered: Route.auth (a 200 of the gate), then
\* getFullUser (404 when the user document is gone), then the handler
RouteSubscribeChannel(c, ch, fullUser) ==
    /\ last.status = 200
    /\ last' = NoResponse
    /\ IF fullUser THEN OnSubscribeChannel(c, last.user, ch)
       ELSE conn[c].phase = "new"
            /\ UNCHANGED <<now, store, issued, proc, rotated, registry, messaging>>

RouteSubscribeAll(c, fullUser) ==
    /\ last.status = 200
    /\ last' = NoResponse
    /\ IF fullUser THEN OnSubscribeAll(c, last.user)
       ELSE conn[c].phase = "new"
            /\ UNCHANGED <<now, store, issued, proc, rotated, registry, messaging>>

\* the same requests once Route.auth has attached the user
SubscribeChannel(c, user, ch) ==
    /\ last = NoResponse
    /\ OnSubscribeChannel(c, user, ch)
    /\ UNCHANGED last

SubscribeAll(c, user) ==
    /\ last = NoResponse
    /\ OnSubscribeAll(c, user)
    /\ UNCHANGED last

\* req 'close', req 'aborted', res 'close': each is emitted at most once
Signals == {"close", "aborted", "resClose"}

Signal(c, sig) ==
    /\ last = NoResponse
    /\ conn[c].phase = "open"
    /\ sig \notin conn[c].signals
    /\ RunCleanup(c)
    /\ conn' = [conn EXCEPT ![c].signals = @ \cup {sig}, ![c].cleaned = TRUE,
                            ![c].heartbeat = IF sig = "close" THEN FALSE ELSE @]
    /\ UNCHANGED <<now, store, issued, proc, rotated, last>>
    /\ UNCHANGED messaging

\* the response stream is ended
EndResponse(c) ==
    /\ last = NoResponse
    /\ conn[c].phase = "open"
    /\ ~conn[c].writableEnded
    /\ conn' = [conn EXCEPT ![c].writableEnded = TRUE]
    /\ UNCHANGED <<now, store, issued, proc, rotated, last,
                   channelSubscriptions, allChannelsSubscriptions>>
    /\ UNCHANGED messaging

\* from now on res.write throws on this response
WriteFails(c) ==
    /\ last = NoResponse
    /\ conn[c].phase = "open"
    /\ ~conn[c].writeThrows
    /\ conn' = [conn EXCEPT ![c].writeThrows = TRUE]
    /\ UNCHANGED <<now, store, issued, proc, rotated, last,
                   channelSubscriptions, allChannelsSubscriptions>>
    /\ UNCHANGED messaging

\* the setInterval callback: cleanup when the response has ended, else a
\* heartbeat event whose outcome is dropped
Heartbeat(c) ==
    /\ last = NoResponse
    /\ conn[c].phase = "open"
    /\ conn[c].heartbeat
    /\ IF conn[c].writableEnded
       THEN /\ RunCleanup(c)
            /\ conn' = [conn EXCEPT ![c].heartbeat = FALSE, ![c].cleaned = TRUE]
       ELSE /\ conn' = [conn EXCEPT ![c].heartbeats =
                   IF SendSSEMessage(c) /\ @ < MaxBeats THEN @ + 1 ELSE @]
            /\ UNCHANGED <<channelSubscriptions, allChannelsSubscriptions>>
    /\ UNCHANGED <<now, store, issued, proc, rotated, last>>
    /\ UNCHANGED messaging

\* a write that is repeated
WriteTwice(d, c) == d + 2

\* res.write of one message event
Write(d, c) == d + 1

\* a sweep that an exception of one write cuts short
WrittenUntilFailure(channelSubs) ==
    IF \E c \in channelSubs : conn[c].writeThrows THEN {}
    ELSE {c \in channelSubs : SendSSEMessage(c)}

\* the connections one sweep writes to
Written(channelSubs) == {c \in channelSubs : SendSSEMessage(c)}

\* a sweep that forgets the failed connections
ToRemoveNone(channelSubs) == {}

\* the connections one sweep collects for removal
ToRemove(channelSubs) == {c \in channelSubs : ~SendSSEMessage(c)}

\* a broadcast that creates the set it does not find
BroadcastCreatingSet(ch) ==
    /\ channelSubscriptions' = MapSet(channelSubscriptions, ch, {})
    /\ UNCHANGED <<conn, allChannelsSubscriptions>>

\* broadcastMessageToChannel on a channel without a set: log and return
BroadcastNoSubscribers(ch) == UNCHANGED registry

\* broadcastMessageToChannel(channelId, message): what it does to the registry
Broadcast(ch) ==
    IF ch \notin DOMAIN channelSubscriptions \/ channelSubscriptions[ch] = {}
    THEN BroadcastNoSubscribers(ch)
    ELSE LET channelSubs == channelSubscriptions[ch]
         IN /\ conn' = [c \in Conns |->
                   IF c \in Written(channelSubs)
                   THEN [conn[c] EXCEPT !.delivered = Write(@, c)] ELSE conn[c]]
            /\ channelSubscriptions' =
                   IF channelSubs \ ToRemove(channelSubs) = {}
                   THEN MapDelete(channelSubscriptions, ch)
                   ELSE MapSet(channelSubscriptions, ch, channelSubs \ ToRemove(channelSubs))
            /\ UNCHANGED allChannelsSubscriptions

\* the set broadcastMessageToChannel reads
Subscribers(ch) ==
    IF ch \in DOMAIN channelSubscriptions THEN channelSubscriptions[ch] ELSE {}

\* a broadcast of some message
BroadcastMessageToChannel(ch) ==
    /\ last = NoResponse
    /\ \A c \in Subscribers(ch) : conn[c].delivered < MaxMessages
    /\ Broadcast(ch)
    /\ UNCHANGED <<now, store, issued, proc, rotated, last>>
    /\ UNCHANGED messaging

\* ------------------------------------------------------ POST /message/send
\* Two handlers are written for the route: one stores the message and
\* broadcasts it, the other only stores it.
SendHandlers == {"storeAndBroadcast", "storeOnly"}
NewChannelIds == <<"n1", "n2", "n3">>
UnknownChannel == "z"

\* channel documents, created ones included
ChannelIds == Channels \cup {n.channelId : n \in newChannels}
Owners(ch) ==
    IF ch \in Channels THEN OwnerUserIds[ch]
    ELSE (CHOOSE n \in newChannels : n.channelId = ch).ownerUserIds

\* findChannelByEitherChannelIdOrTargetId, the query: {channelId} when a
\* channel id is given, else {ownerUserIds: {$all: [user, target]}}
FindChannel(u, channelId, targetUserId) ==
    IF channelId # Null
    THEN {ch \in ChannelIds : ch = channelId}
    ELSE {ch \in ChannelIds : {u, targetUserId} \subseteq Owners(ch)}

\* res.status(code).json(...) of the send handler
Answer(code) == [NoResponse EXCEPT !.status = code]

\* the handler up to its first await; the target is read only when no
\* channel id is given
SendStart(s, handler, u, channelId, targetUserId, muted) ==
    /\ last = NoResponse
    /\ send[s].pc = "idle"
    /\ IF channelId = Null /\ targetUserId = Null
       THEN last' = Answer(400) /\ send' = send
       ELSE IF handler = "storeAndBroadcast" /\ muted
       THEN last' = Answer(403) /\ send' = send
       ELSE /\ last' = last
            /\ send' = [send EXCEPT ![s] =
                  [IdleSend EXCEPT !.pc = "find", !.route = handler, !.user = u,
                       !.channelId = channelId,
                       !.targetUserId = IF channelId = Null THEN targetUserId ELSE Null]]
    /\ UNCHANGED <<now, store, issued, proc, rotated, registry,
                   messages, newChannels, calls, inbox>>

\* channelModel.findOne(query) resolved
SendFind(s, ch) ==
    /\ last = NoResponse
    /\ send[s].pc = "find"
    /\ LET found == FindChannel(send[s].user, send[s].channelId, send[s].targetUserId)
       IN /\ found # {} => ch \in found
          /\ found = {} => ch = Null
          /\ IF ch # Null
             THEN /\ send' = [send EXCEPT ![s].pc = "create", ![s].channelId = ch]
                  /\ last' = last
             ELSE IF send[s].channelId # Null
             THEN /\ send' = [send EXCEPT ![s] = IdleSend]
                  /\ last' = Answer(200)
             ELSE /\ send' = [send EXCEPT ![s].pc = "newChannel"]
                  /\ last' = last
    /\ UNCHANGED <<now, store, issued, proc, rotated, registry,
                   messages, newChannels, calls, inbox>>

\* channelModel.create({ownerUserIds: [user, target]}) resolved or rejected
SendNewChannel(s, ok) ==
    /\ last = NoResponse
    /\ send[s].pc = "newChannel"
    /\ ok => Cardinality(newChannels) < MaxChannels
    /\ IF ok
       THEN LET id == NewChannelIds[Cardinality(newChannels) + 1]
            IN /\ newChannels' = newChannels \cup
                      {[channelId |-> id,
                        ownerUserIds |-> {send[s].user, send[s].targetUserId}]}
               /\ send' = [send EXCEPT ![s].pc = "create", ![s].channelId = id]
               /\ last' = last
       ELSE /\ send' = [send EXCEPT ![s] = IdleSend]
            /\ last' = Answer(200)
            /\ UNCHANGED newChannels
    /\ UNCHANGED <<now, store, issued, proc, rotated, registry,
                   messages, calls, inbox>>

\* a stream on which the newest event comes first
DeliverFirst(box, m) == <<m>> \o box

\* the event stream of a connection: res.write appends
Deliver(box, m) == Append(box, m)

\* after messageModel.create: broadcastMessageToChannel when the message is
\* stored and the handler is the broadcasting one
Publish(s, ok, m) ==
    IF ok /\ send[s].route = "storeAndBroadcast"
    THEN /\ Broadcast(send[s].channelId)
         /\ calls' = Append(calls, m)
         /\ inbox' = [c \in Conns |->
               IF c \in Written(Subscribers(send[s].channelId))
               THEN Deliver(inbox[c], m.messageId) ELSE inbox[c]]
    ELSE UNCHANGED <<registry, calls, inbox>>

\* messageModel.create resolved or rejected, and the rest of the handler
SendCreate(s, ok) ==
    /\ last = NoResponse
    /\ send[s].pc = "create"
    /\ ok => Len(messages) < MaxSends
    /\ LET m == [messageId |-> Len(messages) + 1, channelId |-> send[s].channelId,
                 senderUserId |-> send[s].user]
       IN /\ messages' = IF ok THEN Append(messages, m) ELSE messages
          /\ Publish(s, ok, m)
    /\ send' = [send EXCEPT ![s] = IdleSend]
    /\ last' = Answer(IF ok THEN 201 ELSE 500)
    /\ UNCHANGED <<now, store, issued, proc, rotated, newChannels>>

\* both users have logged in at time 0; the clock stands at 1
InitRegistry ==
    /\ now = 1
    /\ store = StoreRefreshToken(
                  StoreRefreshToken({}, "u1", SignRefresh("u1", 0), RefreshTokenExpiry),
                  "u2", SignRefresh("u2", 0), RefreshTokenExpiry)
    /\ issued = {SignRefresh("u1", 0), SignRefresh("u2", 0)}
    /\ proc = [p \in Procs |-> Idle]
    /\ rotated = {}
    /\ last = NoResponse
    /\ conn = [c \in Conns |-> NoConn]
    /\ channelSubscriptions = EmptyMap
    /\ allChannelsSubscriptions = EmptyMap
    /\ InitMessaging

\* event-stream requests behind the gate, and their close signals
NextAdmission ==
    \/ SendResponse
    \/ \E p \in OneProc : \E a \in AccessInputs : \E r \in RefreshInputs : StartRequest(p, a, r)
    \/ \E p \in OneProc : \E ok \in BOOLEAN : RotFind(p, ok)
    \/ \E p \in OneProc : \E ok \in BOOLEAN : RotCreate(p, ok)
    \/ \E p \in OneProc : \E ok \in BOOLEAN : RotRevoke(p, ok)
    \/ \E c \in Conns : \E ch \in Channels : \E full \in BOOLEAN : RouteSubscribeChannel(c, ch, full)
    \/ \E c \in Conns : \E full \in BOOLEAN : RouteSubscribeAll(c, full)
    \/ \E c \in Conns : \E sig \in Signals : Signal(c, sig)
    \/ \E ch \in Channels : BroadcastMessageToChannel(ch)

SpecAdmission == InitRegistry /\ [][NextAdmission]_vars

\* authenticated event-stream requests, signals, timers and broadcasts
NextRegistry ==
    \/ \E c \in Conns : \E u \in Users : \E ch \in Channels : SubscribeChannel(c, u, ch)
    \/ \E c \in Conns : \E u \in Users : SubscribeAll(c, u)
    \/ \E c \in Conns : \E sig \in Signals : Signal(c, sig)
    \/ \E c \in Conns : EndResponse(c)
    \/ \E c \in Conns : WriteFails(c)
    \/ \E c \in Conns : Heartbeat(c)
    \/ \E ch \in Channels : BroadcastMessageToChannel(ch)

SpecRegistry == InitRegistry /\ [][NextRegistry]_vars

\* the same with the timers running: setInterval keeps calling each
\* connection's heartbeat callback until clearInterval
SpecRegistryLive ==
    InitRegistry /\ [][NextRegistry]_vars /\ \A c \in Conns : WF_vars(Heartbeat(c))

OneSend == {1}

\* authenticated requests for event streams, and one send request at a time
NextSend ==
    \/ SendResponse
    \/ \E c \in Conns : \E u \in OneUser : \E ch \in Channels : SubscribeChannel(c, u, ch)
    \/ \E c \in Conns : \E u \in OneUser : SubscribeAll(c, u)
    \/ \E c \in Conns : Signal(c, "close")
    \/ \E c \in Conns : WriteFails(c)
    \/ \E s \in OneSend : \E h \in SendHandlers : \E u \in Users :
         \E ch \in ChannelIds \cup {UnknownChannel, Null} : \E t \in Users \cup {Null} :
           \E muted \in BOOLEAN : SendStart(s, h, u, ch, t, muted)
    \/ \E s \in OneSend : \E ch \in ChannelIds \cup {Null} : SendFind(s, ch)
    \/ \E s \in OneSend : \E ok \in BOOLEAN : SendNewChannel(s, ok)
    \/ \E s \in OneSend : \E ok \in BOOLEAN :
           (ok => Len(messages) < MaxStored) /\ SendCreate(s, ok)

SpecSend == InitRegistry /\ [][NextSend]_vars

\* concurrent send requests of one member to its channels, through the
\* broadcasting handler
NextOrder ==
    \/ SendResponse
    \/ \E c \in Conns : \E u \in OneUser : \E ch \in Channels : SubscribeChannel(c, u, ch)
    \/ \E c \in Conns : \E u \in OneUser : SubscribeAll(c, u)
    \/ \E c \in Conns : Signal(c, "close")
    \/ \E s \in SendReqs : \E u \in OneUser : \E ch \in Channels :
           SendStart(s, "storeAndBroadcast", u, ch, Null, FALSE)
    \/ \E s \in SendReqs : \E ch \in ChannelIds : SendFind(s, ch)
    \/ \E s \in SendReqs : \E ok \in BOOLEAN : SendCreate(s, ok)

SpecOrder == InitRegistry /\ [][NextOrder]_vars

\* ------------------------------------------------------------- properties
Answered == last.status # 0
\* the answered request went through rotateTokens
ViaRotation == Answered /\ last.accessSubject = Null /\ last.refresh # NoToken
RotationSucceeded == ViaRotation /\ last.status = 200
RevokedRecords(s) == {x \in s : x.isRevoked}

\* C1: once rotateTokens(r) has succeeded, verifyRefreshToken(r) is invalid
\* from then on, and a record is only ever marked revoked by a rotation of its
\* token that has succeeded.
C1_SingleUse ==
    /\ \A r \in rotated : VerifyRefreshToken(store, r, now) = Null
    /\ \A x \in RevokedRecords(store) : x.token \in rotated

C1_Witness ==
    /\ RotationSucceeded
    /\ last.refresh \in rotated
    /\ \E x \in RevokedRecords(store) : x.token = last.refresh

\* C2: a refresh token is exchanged for a new pair at most once: no rotation
\* succeeds for a token that an earlier rotation already exchanged.
C2_AtMostOnce == [][RotationSucceeded' => last'.refresh \notin rotated]_vars

\* C3: no rotation succeeds for a token whose record was marked revoked
\* before the rotation completed.
C3_NoRevokedMidFlight ==
    [][RotationSucceeded' => ~IsTokenRevoked(store, last'.refresh)]_vars

\* C4: a request whose access token is valid but names another subject than
\* its refresh token is rejected.
C4_MismatchRejected ==
    (Answered /\ last.accessSubject # Null /\ last.refresh.kind = "refresh"
        /\ last.refresh.userId # last.accessSubject)
    => (last.status = 401 /\ last.user = Null)

\* C5 as stated: a request with a valid access token is resolved to that
\* token's subject, with or without a refresh token.
C5_AccessAlwaysResolves ==
    (Answered /\ last.accessSubject # Null)
    => (last.status = 200 /\ last.user = last.accessSubject)

\* C5 amended: a request with a valid access token and any refresh cookie is
\* resolved to the access token's subject, without rotation.
C5_AccessResolvesWithRefresh ==
    (Answered /\ last.accessSubject # Null /\ last.refresh # NoToken)
    => (last.status = 200 /\ last.user = last.accessSubject
        /\ last.setAccess = NoToken /\ last.setRefresh = NoToken)

C5_Witness ==
    /\ last.status = 200
    /\ last.accessSubject # Null
    /\ last.user = last.accessSubject
    /\ last.refresh = Garbage

\* C6: an unauthenticated request is answered 401 and both cookies are
\* cleared.
C6_FailureClearsCookies ==
    (Answered /\ last.user = Null) => (last.status = 401 /\ last.cleared)

\* C7: a request without a usable access token whose refresh token r1 is
\* valid when it is looked up is authenticated as r1's subject (unless a store
\* call fails), both cookies are set to new tokens, and r1 is invalid in the
\* state the response leaves.
C7_GateRotates ==
    ViaRotation =>
        /\ last.status = 401 =>
              (last.storeFailed \/ VerifyRefreshToken(store, last.refresh, now) = Null)
        /\ last.status = 200 =>
              /\ last.user = last.refresh.userId
              /\ last.setAccess.kind = "access"
              /\ last.setAccess.userId = last.user
              /\ last.setRefresh.kind = "refresh"
              /\ last.setRefresh.userId = last.user
              /\ VerifyRefreshToken(store, last.refresh, now) = Null

C7_Witness ==
    /\ RotationSucceeded
    /\ last.setRefresh # NoToken
    /\ last.setAccess # NoToken
    /\ IsTokenRevoked(store, last.refresh)

\* C8: a record is marked revoked only in the step in which a rotation of
\* its token returns successfully: a rotation that fails changes no flag.
C8_FailedRotationRevokesNothing ==
    [][\A x \in RevokedRecords(store') \ RevokedRecords(store) :
          RotationSucceeded' /\ last'.refresh = x.token]_vars

C8_Witness ==
    /\ ViaRotation
    /\ last.status = 401
    /\ last.storeFailed
    /\ ~IsTokenRevoked(store, last.refresh)
    /\ RevokedRecords(store) = {}
    /\ Cardinality(store) > 1

\* C9: a successful rotation returns tokens that differ from the ones they
\* replace and carry the subject of the old token; the access token verifies
\* (at the time it was signed) and the refresh token passes
\* verifyRefreshToken when it is returned.
C9_FreshValidPair ==
    RotationSucceeded =>
        /\ last.setRefresh # last.refresh
        /\ last.setAccess # AccessOf(last.refresh)
        /\ VerifyAccessToken(last.setAccess, MintTime(last.setAccess)) = last.refresh.userId
        /\ VerifyRefreshToken(store, last.setRefresh, now) = last.refresh.userId

\* C10: the access token of generateTokens(u) verifies to u at every time
\* before its expires timestamp (mint + accessTokenExpiry) and is invalid at
\* every later time.
C10_AccessWindow ==
    \A r \in issued :
        /\ now < AccessOf(r).expires
              => VerifyAccessToken(AccessOf(r), now) = r.userId
        /\ now > AccessOf(r).expires
              => VerifyAccessToken(AccessOf(r), now) = Null

\* ------------------------------------------------------------- C11 .. C15
AllTokens ==
    {NoToken, Garbage} \cup {SignAccess(u, t) : u \in Users, t \in 0..MaxTime}
                       \cup {SignRefresh(u, t) : u \in Users, t \in 0..MaxTime}

\* C11: verifyAccessToken is stateless. Across every step that leaves the
\* clock alone, whatever it does to the credential store (create, revoke,
\* sweep, a rejected call), the result for every token is unchanged, and it
\* is the subject or null, never an error.
C11_AccessStateless ==
    [][now' = now =>
        \A tok \in AllTokens :
            /\ VerifyAccessToken(tok, now)' = VerifyAccessToken(tok, now)
            /\ VerifyAccessToken(tok, now) \in Users \cup {Null}]_vars

\* an access token still verifies although its refresh token is revoked
C11_Witness ==
    \E r \in rotated :
        /\ \E x \in RevokedRecords(store) : x.token = r
        /\ VerifyAccessToken(AccessOf(r), now) = r.userId

KnownTokens ==
    {NoToken, Garbage} \cup issued \cup rotated \cup {x.token : x \in store}
        \cup {proc[p].newRefresh : p \in Procs} \cup {proc[p].refresh : p \in Procs}

\* C12: verifyRefreshToken returns a subject only for a signed, unexpired
\* refresh token with an unrevoked record in the store, and returns null
\* whenever the token has no record or a revoked one.
C12_RefreshNeedsLiveRecord ==
    \A tok \in KnownTokens :
        /\ VerifyRefreshToken(store, tok, now) # Null =>
              /\ tok.kind = "refresh"
              /\ Seconds(now) < tok.exp
              /\ VerifyRefreshToken(store, tok, now) = tok.userId
              /\ \E x \in store : x.token = tok /\ ~x.isRevoked
        /\ (Found(store, tok) = {} \/ \E x \in Found(store, tok) : x.isRevoked)
              => VerifyRefreshToken(store, tok, now) = Null

\* a signed, unexpired token without a record, a revoked one, and a live one
C12_Witness ==
    /\ \E p \in Procs : /\ proc[p].pc = "create"
                        /\ Found(store, proc[p].newRefresh) = {}
                        /\ JwtVerify(proc[p].newRefresh, "refresh", now) # Null
    /\ \E x \in RevokedRecords(store) : JwtVerify(x.token, "refresh", now) # Null
    /\ \E x \in store : VerifyRefreshToken(store, x.token, now) = x.userId

\* C13: a request authenticated through its access token performs no
\* rotation: no record is created or revoked, no cookie is set or cleared.
C13_AccessPathFrame ==
    [][(last = NoResponse /\ last'.status = 200 /\ last'.accessSubject # Null) =>
        /\ store' = store
        /\ last'.setAccess = NoToken
        /\ last'.setRefresh = NoToken
        /\ ~last'.cleared]_vars

\* authenticated by the access token while a live refresh token came along
C13_Witness ==
    /\ last.status = 200
    /\ last.accessSubject # Null
    /\ VerifyRefreshToken(store, last.refresh, now) = last.accessSubject

\* C14: revokeRefreshToken is idempotent, and on an already revoked or
\* nonexistent token it changes nothing; it never touches another record.
C14_RevokeIdempotent ==
    \A u \in Users : \A tok \in KnownTokens :
        LET once == RevokeRefreshToken(store, u, tok)
        IN /\ RevokeRefreshToken(once, u, tok) = once
           /\ \A x \in store : (x.token # tok \/ x.userId # u) => x \in once
           /\ (Matches(store, u, tok) = {} \/ First(Matches(store, u, tok)).isRevoked)
                 => once = store

\* a token with two records, the first of them revoked
C14_Witness ==
    \E x \in RevokedRecords(store) : Cardinality(Found(store, x.token)) > 1

\* C15: the sweep at time now removes every record with expiresAt < now,
\* keeps every other record as it is, and a rejected store call is swallowed.
C15_SweepExact ==
    /\ \A x \in CleanupJob(store, now, TRUE).store : ~(x.expiresAt < now) /\ x \in store
    /\ \A x \in store : ~(x.expiresAt < now) => x \in CleanupJob(store, now, TRUE).store
    /\ \A ok \in BOOLEAN : ~CleanupJob(store, now, ok).rejected
    /\ CleanupJob(store, now, FALSE).store = store

\* a store with an expired record, one expiring right now, and a later one
C15_Witness ==
    /\ \E x \in store : x.expiresAt < now
    /\ \E x \in store : x.expiresAt = now
    /\ \E x \in store : x.expiresAt > now

\* ------------------------------------------------------------- C16 .. C20
InSet(subs, ch, c) == ch \in DOMAIN subs /\ c \in subs[ch]

\* C16: a connection enters a channel's set, or a user's all-channels slot,
\* only in the step of a request the gate authenticated (status 200) as a
\* user who owns that channel, and it is recorded under that user.
C16_AdmissionAfterGate ==
    [][/\ \A c \in Conns : \A ch \in Channels :
            (InSet(channelSubscriptions', ch, c) /\ ~InSet(channelSubscriptions, ch, c)) =>
                /\ last.status = 200
                /\ last.user \in OwnerUserIds[ch]
                /\ conn'[c].userId = last.user
       /\ \A u \in DOMAIN allChannelsSubscriptions' :
            (u \notin DOMAIN allChannelsSubscriptions
                \/ allChannelsSubscriptions'[u] # allChannelsSubscriptions[u]) =>
                /\ last.status = 200
                /\ last.user = u
                /\ UserChannels(u) # {}]_vars

\* a connection admitted after the gate rotated the request's credentials
C16_Witness ==
    \E c \in Conns :
        /\ InSet(channelSubscriptions, "x", c)
        /\ conn[c].userId = "u1"
        /\ \E p \in OneProc : SignRefresh("u1", 0) \in rotated

\* C17: channelSubscriptions never maps a channel id to an empty set.
C17_NoEmptySets ==
    \A ch \in DOMAIN channelSubscriptions : channelSubscriptions[ch] # {}

\* one set was emptied and deleted while another still has a subscriber
C17_Witness ==
    /\ \E c \in Conns : conn[c].cleaned /\ "x" \in conn[c].channels
    /\ "x" \notin DOMAIN channelSubscriptions
    /\ "y" \in DOMAIN channelSubscriptions

\* C18: one broadcast to channel ch writes the message exactly once to every
\* connection of ch's set whose transport is writable.
C18_DeliveredOnce ==
    [][\A ch \in Channels :
          (ch \in DOMAIN channelSubscriptions /\ BroadcastMessageToChannel(ch)) =>
              \A c \in channelSubscriptions[ch] :
                  (~conn[c].writableEnded /\ ~conn[c].writeThrows) =>
                      conn'[c].delivered = conn[c].delivered + 1]_vars

\* two subscribers of one channel have both received a message
C18_Witness ==
    \E ch \in DOMAIN channelSubscriptions :
        /\ Cardinality(channelSubscriptions[ch]) = 2
        /\ \A c \in channelSubscriptions[ch] : conn[c].delivered = 1

\* C19: once a connection's cleanup has run the connection is in no set, and
\* no later step (broadcast included) writes a message to it.
C19_CleanedIsGone ==
    [][\A c \in Conns : conn'[c].cleaned =>
          /\ \A ch \in DOMAIN channelSubscriptions' : c \notin channelSubscriptions'[ch]
          /\ conn[c].cleaned => conn'[c].delivered = conn[c].delivered]_vars

\* a broadcast reached a subscriber of a channel that a cleaned connection
\* had been subscribed to, and not the cleaned connection
C19_Witness ==
    \E c \in Conns : \E d \in Conns :
        /\ conn[c].cleaned /\ conn[c].delivered = 0
        /\ conn[d].delivered = 1 /\ conn[d].channels \subseteq conn[c].channels
        /\ conn[c].endpoint = AllEndpoint

\* C20: a second run of a connection's cleanup changes neither map,
\* whatever happened since its first run.
C20_CleanupIdempotent ==
    [][\A c \in Conns :
          (conn[c].cleaned /\ ((\E sig \in Signals : Signal(c, sig)) \/ Heartbeat(c))) =>
              /\ channelSubscriptions' = channelSubscriptions
              /\ allChannelsSubscriptions' = allChannelsSubscriptions]_vars

\* ------------------------------------------------------------- C21 .. C30
\* a send request completes with the message stored
Stored(s) ==
    send[s].pc = "create" /\ send'[s].pc = "idle" /\ Len(messages') = Len(messages) + 1

Failing(c) == conn[c].writableEnded \/ conn[c].writeThrows

\* C21: when the broadcast of a stored message meets a connection whose
\* delivery fails, every other writable connection of the channel's set
\* still gets the message, and the sender is answered 201.
C21_FailureIsLocal ==
    [][\A s \in SendReqs :
          (Stored(s) /\ send[s].route = "storeAndBroadcast"
                /\ \E f \in Subscribers(send[s].channelId) : Failing(f)) =>
              /\ \A c \in Subscribers(send[s].channelId) : ~Failing(c) =>
                    /\ conn'[c].delivered = conn[c].delivered + 1
                    /\ inbox'[c] = Append(inbox[c], Len(messages'))
              /\ last'.status = 201]_vars

\* a message reached one subscriber although the write to another subscriber
\* of the same channel threw
C21_Witness ==
    /\ last.status = 201
    /\ \E c \in Conns : \E f \in Conns :
          /\ conn[f].writeThrows /\ ~conn[f].cleaned /\ conn[f].delivered = 0
          /\ conn[f].channels \cap conn[c].channels # {}
          /\ \A ch \in DOMAIN channelSubscriptions : f \notin channelSubscriptions[ch]
          /\ inbox[c] = <<1>>

\* C22: after a broadcast to channel ch, every connection of ch's set the
\* delivery failed for is out of the set, and every connection it succeeded
\* for is still in it.
C22_FailedRemovedOthersKept ==
    [][\A ch \in Channels :
          (ch \in DOMAIN channelSubscriptions /\ BroadcastMessageToChannel(ch)) =>
              \A c \in channelSubscriptions[ch] :
                  IF Failing(c) THEN ~InSet(channelSubscriptions', ch, c)
                  ELSE InSet(channelSubscriptions', ch, c)]_vars

\* a broadcast removed a connection whose response had ended and kept the
\* one it wrote to
C22_Witness ==
    \E c \in Conns : \E f \in Conns :
        /\ conn[f].writableEnded /\ ~conn[f].cleaned /\ conn[f].endpoint = "x"
        /\ ~InSet(channelSubscriptions, "x", f)
        /\ InSet(channelSubscriptions, "x", c) /\ conn[c].delivered = 1

\* the connection is in no channel's set and in no user's slot
Removed(c) ==
    /\ \A ch \in DOMAIN channelSubscriptions : c \notin channelSubscriptions[ch]
    /\ \A u \in DOMAIN allChannelsSubscriptions : allChannelsSubscriptions[u] # c

\* C23: a connection whose response has ended or whose writes fail is
\* eventually in no channel's set and in no user's slot, the heartbeat
\* timers running.
C23_DeadEventuallyRemoved ==
    \A c \in Conns : (conn[c].phase = "open" /\ Failing(c)) ~> Removed(c)

\* C28: a user has an all-channels slot exactly when one of the connections
\* the user opened through the all-channels endpoint is still registered
\* (its cleanup has not run).
C28_SlotIffLiveConnection ==
    \A u \in Users :
        u \in DOMAIN allChannelsSubscriptions <=>
            \E c \in Conns : /\ conn[c].phase = "open" /\ conn[c].userId = u
                             /\ conn[c].endpoint = AllEndpoint /\ ~conn[c].cleaned

\* C30: once a connection's cleanup has run its heartbeat timer is off, and
\* no later step writes a heartbeat or a message to it.
C30_CleanedIsSilent ==
    [][\A c \in Conns : conn[c].cleaned =>
          /\ ~conn[c].heartbeat
          /\ conn'[c].heartbeats = conn[c].heartbeats
          /\ conn'[c].delivered = conn[c].delivered]_vars

\* rotateTokens returns null: the rotation ends with the rejection of the
\* request
RotationFailed(p) ==
    /\ proc[p].pc \in {"find", "create", "revoke"}
    /\ proc'[p].pc = "idle"
    /\ last'.status = 401

\* storeRefreshToken has resolved for the pair this rotation minted
Persisted(p) == proc[p].pc = "revoke"

\* C29: a rotation that fails has persisted nothing: no record of the
\* refresh token it minted and stored is in the store when it returns null.
C29_FailedRotationStoresNothing ==
    [][\A p \in Procs : (RotationFailed(p) /\ Persisted(p)) =>
          Found(store', proc[p].newRefresh) = {}]_vars

\* the messages of channel ch in a sequence of message ids, in order
RECURSIVE OfChannel(_, _)
OfChannel(ids, ch) ==
    IF ids = <<>> THEN <<>>
    ELSE IF messages[Head(ids)].channelId = ch
         THEN <<Head(ids)>> \o OfChannel(Tail(ids), ch)
         ELSE OfChannel(Tail(ids), ch)

\* the message ids of the calls of broadcastMessageToChannel, in call order
CallIds == [i \in 1..Len(calls) |-> calls[i].messageId]

\* s is t without some first elements
IsSuffix(s, t) ==
    /\ Len(s) <= Len(t)
    /\ \A i \in 1..Len(s) : s[i] = t[Len(t) - Len(s) + i]

\* C24: what a connected subscriber has received of a channel is, in the
\* same order, the calls of broadcastMessageToChannel for that channel since
\* it subscribed.
C24_CallOrder ==
    \A c \in Conns : \A ch \in Channels :
        (conn[c].phase = "open" /\ ~conn[c].cleaned /\ ch \in conn[c].channels) =>
            IsSuffix(OfChannel(inbox[c], ch), OfChannel(CallIds, ch))

\* two sends in flight together were stored one after the other, and a
\* subscriber of their channel has received both
C24_Witness ==
    \E c \in Conns :
        /\ conn[c].phase = "open" /\ ~conn[c].cleaned
        /\ Len(inbox[c]) = 2
        /\ messages[1].channelId = messages[2].channelId
        /\ OfChannel(inbox[c], messages[1].channelId) = <<1, 2>>

\* C25: the broadcast of a stored message to a channel without subscribers
\* writes to no connection and leaves both maps as they are; the send is
\* answered 201.
C25_NoSubscribersNoEffect ==
    [][\A s \in SendReqs :
          (Stored(s) /\ send[s].route = "storeAndBroadcast"
                /\ Subscribers(send[s].channelId) = {}) =>
              /\ calls' # calls
              /\ conn' = conn /\ inbox' = inbox
              /\ channelSubscriptions' = channelSubscriptions
              /\ allChannelsSubscriptions' = allChannelsSubscriptions
              /\ last'.status = 201]_vars

\* a message was broadcast to y, which has no subscribers, while x has one
C25_Witness ==
    /\ last.status = 201
    /\ Len(calls) = 1 /\ calls[1].channelId = "y"
    /\ \A c \in Conns : inbox[c] = <<>>
    /\ DOMAIN channelSubscriptions = {"x"}

\* C26: a send request that ends broadcasts exactly when it has stored its
\* message (status 201), and what it broadcasts is the stored message.
C26_StoredThenBroadcast ==
    [][\A s \in SendReqs : (send[s].pc = "create" /\ send'[s].pc = "idle") =>
          IF last'.status = 201
          THEN /\ Len(messages') = Len(messages) + 1
               /\ calls' = Append(calls, messages'[Len(messages')])
          ELSE calls' = calls]_vars

\* C27: every message broadcast to a channel was sent by a member of that
\* channel.
C27_SenderIsMember ==
    \A i \in 1..Len(calls) : calls[i].senderUserId \in Owners(calls[i].channelId)

====
